---- MODULE Spec2Model ----
(***************************************************************************)
(* LensLingua: the client-side persistence layer (databaseService: the     *)
(* user list and the history list kept in localStorage), the extraction    *)
(* client (aiService) and the application controller (App): login, upload, *)
(* camera, recorder, reset and the history panel.                          *)
(*                                                                         *)
(* Strings that the code inspects character by character (emails: trim,    *)
(* toLowerCase, truthiness) are sequences of one-character strings; the    *)
(* empty string is << >>.  Strings the code only compares (ids, passwords, *)
(* languages) are TLA+ strings.                                            *)
(***************************************************************************)
EXTENDS Integers, Sequences, FiniteSets, TLC

VARIABLES
    storedHistory,   \* localStorage[HISTORY_KEY]: the raw persisted value
    storedUsers,     \* localStorage[USERS_KEY]: the raw persisted value
    call,            \* the databaseService call that ran last, and its outcome
    savedLog,        \* history of the saveHistory calls made (arguments, outcome)
    isAuthenticated, \* App state
    userData,        \* App state: {email, password} of the session
    status,          \* App state: AppStatus
    results,         \* App state: ExtractedItem[]
    activeHistoryId, \* App state: string | null
    error,           \* App state: string | null
    targetLanguage,  \* App state
    imagePreview,    \* App state: string | null
    pending,         \* operations under way: uploads, confirmed captures, recordings
    capturedImage,   \* App state: string | null
    isCameraActive,  \* App state
    isCameraReady,   \* App state
    isInitializingRef, \* App ref: startCamera is awaiting getUserMedia
    streamRef,       \* App ref: the camera stream, or null
    cameraPending,   \* getUserMedia calls of startCamera not yet settled
    liveStreams,     \* camera streams obtained whose tracks are not stopped
    isRecording,     \* App state
    mediaRecorderRef, \* App ref: the id of the recording whose recorder it holds, 0 for null
    showHistory,     \* App state
    panelHistory,    \* HistoryPanel state: history
    userActions,     \* uploads, confirmed captures and recordings started so far
    lastLogin,       \* the last handleLogin call: its arguments and what it returned
    ai,              \* aiService: the last call, its arguments, the response, the outcome
    requests         \* the requests sent to OPENROUTER_URL so far

vars == <<storedHistory, storedUsers, call, savedLog, isAuthenticated, userData,
          status, results, activeHistoryId, error, targetLanguage, imagePreview,
          pending, capturedImage, isCameraActive, isCameraReady, isInitializingRef,
          streamRef, cameraPending, isRecording, mediaRecorderRef, showHistory,
          panelHistory, userActions, ai, requests, liveStreams, lastLogin>>

aiVars == <<ai, requests>>

cameraVars == <<isCameraActive, isCameraReady, isInitializingRef, streamRef, cameraPending,
               liveStreams>>

ctlVars == <<capturedImage, cameraVars, isRecording, mediaRecorderRef, showHistory,
             panelHistory, userActions>>

appVars == <<isAuthenticated, userData, status, results, activeHistoryId, error,
             targetLanguage, imagePreview, pending, ctlVars, aiVars, lastLogin>>

(***************************************************************************)
(* Bounds and input sets                                                   *)
(***************************************************************************)
MaxHistory == 3

\* tokens in the content of a model reply
MaxText == 5

\* tokens in the content of a reply given to a service call
MaxReply == 3

\* history records, where both stores are written
MaxStored == 2

\* registered users, where the user list is bounded
MaxUsers == 1

\* uploads, confirmed captures and recordings started in a run
MaxActions == 2

\* operations under way at once
MaxPending == 2

\* camera streams obtained or asked for at once
MaxLive == 2

\* email arguments: empty, whitespace only, and two users in several spellings
Emails == { << >>, <<" ">>, <<"a">>, <<" ", "A">>, <<"b">>, <<"B", " ">> }

Passwords == {"p1", "p2"}

\* the (type, targetLanguage, items) arguments of saveHistory
SaveInputs ==
    { [type |-> "scan",  targetLanguage |-> "English", items |-> <<"soup">>],
      [type |-> "audio", targetLanguage |-> "Spanish", items |-> <<"hola", "adios">>] }

\* the SaveInputs element for a scan
ScanInput == CHOOSE in \in SaveInputs : in.type = "scan"

\* what generateId() may return: nothing in it looks at the ids already stored
IdPool == {"id1", "id2"}

\* itemId arguments of deleteHistoryItem
ItemIds == IdPool \cup {""}

\* what new Date() may read, in milliseconds: a wall clock, not monotonic
Times == {1, 2}

NULL == "null"

(***************************************************************************)
(* String.prototype.trim / toLowerCase on character sequences              *)
(***************************************************************************)
toLowerCaseChar(c) ==
    CASE c = "A" -> "a"
      [] c = "B" -> "b"
      [] OTHER   -> c

toLowerCase(s) == [i \in 1..Len(s) |-> toLowerCaseChar(s[i])]

IsWhiteSpace(c) == c = " "

RECURSIVE trimStart(_)
trimStart(s) ==
    IF s # << >> /\ IsWhiteSpace(Head(s)) THEN trimStart(Tail(s)) ELSE s

RECURSIVE trimEnd(_)
trimEnd(s) ==
    IF s # << >> /\ IsWhiteSpace(s[Len(s)])
    THEN trimEnd(SubSeq(s, 1, Len(s) - 1))
    ELSE s

trim(s) == trimEnd(trimStart(s))

\* email.trim() alone, the case of the letters kept
normalizedEmail_TrimOnly(email) == trim(email)

\* email.trim().toLowerCase()
normalizedEmail(email) == toLowerCase(trim(email))

(***************************************************************************)
(* localStorage values and JSON                                            *)
(*   kind "null"     the key is absent (getItem returns null)              *)
(*   kind "empty"    the empty string                                      *)
(*   kind "garbage"  text that is not JSON (JSON.parse throws)             *)
(*   kind "object"   JSON that is not an array                             *)
(*   kind "array"    a JSON array; elems are its elements                  *)
(***************************************************************************)
RawNull    == [kind |-> "null",    elems |-> << >>]
RawEmpty   == [kind |-> "empty",   elems |-> << >>]
RawGarbage == [kind |-> "garbage", elems |-> << >>]
RawObject  == [kind |-> "object",  elems |-> << >>]

JSONstringify(arr) == [kind |-> "array", elems |-> arr]

\* JSON.parse: throws on text that is not JSON
JSONparse(raw) ==
    IF raw.kind \in {"garbage", "empty"}
    THEN [threw |-> TRUE,  isArray |-> FALSE, elems |-> << >>]
    ELSE [threw |-> FALSE, isArray |-> raw.kind = "array", elems |-> raw.elems]

\* the outcome of a call: a returned value or a thrown error, and the store after it
Return(v, store) == [threw |-> FALSE, ret |-> v, store |-> store]
Throw(msg, store) == [threw |-> TRUE, ret |-> msg, store |-> store]

(***************************************************************************)
(* Date: new Date().toISOString() and new Date(timestamp).getTime()        *)
(***************************************************************************)
toISOString(ms) == <<"ISO", ms>>

getTime(iso) == iso[2]

(***************************************************************************)
(* databaseService                                                         *)
(***************************************************************************)

\* getRawHistory without its try/catch
getRawHistory_NoCatch(raw) ==
    IF raw.kind \in {"null", "empty"} THEN [threw |-> FALSE, value |-> << >>]
    ELSE LET parsed == JSONparse(raw)
         IN  IF parsed.threw THEN [threw |-> TRUE, value |-> << >>]
             ELSE [threw |-> FALSE,
                   value |-> IF parsed.isArray THEN parsed.elems ELSE << >>]

\* getRawHistory: [] when the entry is absent, unparseable or not an array
getRawHistory(raw) ==
    IF raw.kind \in {"null", "empty"} THEN [threw |-> FALSE, value |-> << >>]
    ELSE LET parsed == JSONparse(raw)
         IN  IF parsed.threw THEN [threw |-> FALSE, value |-> << >>]
             ELSE [threw |-> FALSE,
                   value |-> IF parsed.isArray THEN parsed.elems ELSE << >>]

\* getRawUsers: the same reading of the user list
getRawUsers(raw) ==
    IF raw.kind \in {"null", "empty"} THEN [threw |-> FALSE, value |-> << >>]
    ELSE LET parsed == JSONparse(raw)
         IN  IF parsed.threw THEN [threw |-> FALSE, value |-> << >>]
             ELSE [threw |-> FALSE,
                   value |-> IF parsed.isArray THEN parsed.elems ELSE << >>]

\* isOwner comparing with the email as given: item.email === email
isOwner_AsGiven(item, email) == item.email = email

\* item => (item.email || '').trim().toLowerCase() === normalizedEmail
isOwner(item, email) == normalizedEmail(item.email) = normalizedEmail(email)

\* Array.prototype.sort((a, b) => getTime(b.timestamp) - getTime(a.timestamp)):
\* a stable sort, so each element goes after those that do not sort after it
sortInsert(sorted, x) ==
    LET k == Cardinality({i \in 1..Len(sorted) :
                 getTime(sorted[i].timestamp) >= getTime(x.timestamp)})
    IN  SubSeq(sorted, 1, k) \o <<x>> \o SubSeq(sorted, k + 1, Len(sorted))

RECURSIVE sortByTimestampDesc(_)
sortByTimestampDesc(s) ==
    IF s = << >> THEN << >>
    ELSE sortInsert(sortByTimestampDesc(SubSeq(s, 1, Len(s) - 1)), s[Len(s)])

\* Array.prototype.findIndex, 1-based; 0 where the code gets -1
findIndex(s, Test(_)) ==
    IF \E i \in 1..Len(s) : Test(s[i])
    THEN CHOOSE i \in 1..Len(s) : Test(s[i]) /\ \A j \in 1..(i - 1) : ~Test(s[j])
    ELSE 0

\* history.splice(index, 1)
splice1(s, index) == SubSeq(s, 1, index - 1) \o SubSeq(s, index + 1, Len(s))

\* saveHistory without its localStorage.setItem
saveHistory_NotPersisted(raw, email, type, lang, items, newId, now) ==
    IF email = << >> THEN Return("", raw) ELSE Return(newId, raw)

\* saveHistory without its test of the email
saveHistory_NoGuard(raw, email, type, lang, items, newId, now) ==
    Return(newId,
           JSONstringify(Append(getRawHistory(raw).value,
                                [id             |-> newId,
                                 email          |-> normalizedEmail(email),
                                 type           |-> type,
                                 timestamp      |-> toISOString(now),
                                 targetLanguage |-> lang,
                                 items          |-> items])))

\* saveHistory; newId is what generateId() returned, now what new Date() read
saveHistory(raw, email, type, lang, items, newId, now) ==
    IF email = << >> THEN Return("", raw)
    ELSE LET history == getRawHistory(raw)
             newEntry == [id             |-> newId,
                          email          |-> normalizedEmail(email),
                          type           |-> type,
                          timestamp      |-> toISOString(now),
                          targetLanguage |-> lang,
                          items          |-> items]
         IN  IF history.threw THEN Throw("SyntaxError", raw)
             ELSE Return(newId, JSONstringify(Append(history.value, newEntry)))

\* getUserHistory sorting the stored list itself and writing it back
getUserHistory_SortsStore(raw, email) ==
    IF email = << >> THEN Return(<< >>, raw)
    ELSE LET sorted == sortByTimestampDesc(getRawHistory(raw).value)
         IN  Return(SelectSeq(sorted, LAMBDA item : isOwner(item, email)),
                    IF sorted = << >> THEN raw ELSE JSONstringify(sorted))

getUserHistory(raw, email) ==
    IF email = << >> THEN Return(<< >>, raw)
    ELSE LET history == getRawHistory(raw)
         IN  IF history.threw THEN Throw("SyntaxError", raw)
             ELSE Return(sortByTimestampDesc(
                             SelectSeq(history.value, LAMBDA item : isOwner(item, email))),
                         raw)

\* clearUserHistory writing an empty list, whoever owns the records
clearUserHistory_Everyone(raw, email) ==
    IF email = << >> THEN Return(NULL, raw) ELSE Return(NULL, JSONstringify(<< >>))

clearUserHistory(raw, email) ==
    IF email = << >> THEN Return(NULL, raw)
    ELSE LET history == getRawHistory(raw)
         IN  IF history.threw THEN Throw("SyntaxError", raw)
             ELSE Return(NULL, JSONstringify(
                             SelectSeq(history.value, LAMBDA item : ~isOwner(item, email))))

\* deleteHistoryItem looking for the id alone, not the owner
deleteHistoryItem_AnyOwner(raw, email, itemId) ==
    IF email = << >> \/ itemId = "" THEN Return(NULL, raw)
    ELSE LET history == getRawHistory(raw)
             index == findIndex(history.value, LAMBDA item : item.id = itemId)
         IN  IF index # 0
             THEN Return(NULL, JSONstringify(splice1(history.value, index)))
             ELSE Return(NULL, raw)

deleteHistoryItem(raw, email, itemId) ==
    IF email = << >> \/ itemId = "" THEN Return(NULL, raw)
    ELSE LET history == getRawHistory(raw)
             index == findIndex(history.value,
                                LAMBDA item : item.id = itemId /\ isOwner(item, email))
         IN  IF history.threw THEN Throw("SyntaxError", raw)
             ELSE IF index # 0
                  THEN Return(NULL, JSONstringify(splice1(history.value, index)))
                  ELSE Return(NULL, raw)

\* users.find(u => u.email === normalizedEmail): the index of the first such
\* record, 0 when there is none (find returns undefined)
findUser(users, email) ==
    findIndex(users, LAMBDA u : u.email = normalizedEmail(email))

\* registerUser without its localStorage.setItem
registerUser_NotPersisted(raw, email, password) ==
    IF findUser(getRawUsers(raw).value, email) # 0
    THEN Throw("An account with this email already exists.", raw)
    ELSE Return(NULL, raw)

\* registerUser looking for the email as given: u.email === email
registerUser_AsGiven(raw, email, password) ==
    LET users == getRawUsers(raw)
    IN  IF findIndex(users.value, LAMBDA u : u.email = email) # 0
        THEN Throw("An account with this email already exists.", raw)
        ELSE Return(NULL, JSONstringify(
                        Append(users.value, [email    |-> normalizedEmail(email),
                                             password |-> password])))

registerUser(raw, email, password) ==
    LET users == getRawUsers(raw)
    IN  IF users.threw THEN Throw("SyntaxError", raw)
        ELSE IF findUser(users.value, email) # 0
             THEN Throw("An account with this email already exists.", raw)
             ELSE Return(NULL, JSONstringify(
                             Append(users.value, [email    |-> normalizedEmail(email),
                                                  password |-> password])))

\* verifyUser without the comparison of passwords
verifyUser_EmailOnly(raw, email, password) ==
    Return(findUser(getRawUsers(raw).value, email) # 0, raw)

verifyUser(raw, email, password) ==
    LET users == getRawUsers(raw)
        user  == findUser(users.value, email)
    IN  IF users.threw THEN Throw("SyntaxError", raw)
        ELSE Return(IF user # 0 THEN users.value[user].password = password ELSE FALSE,
                    raw)

(***************************************************************************)
(* aiService.  A text is a sequence of tokens:                             *)
(*   "fence-json"       the code-fence marker followed by json             *)
(*   "fence"            the code-fence marker alone                        *)
(*   "{", "}"           braces                                             *)
(*   "t"                other text: a member when it stands between the    *)
(*                      braces of an object, not JSON anywhere else        *)
(*   "1"                a number literal                                   *)
(*   " "                white space                                        *)
(***************************************************************************)
Tokens == {"fence-json", "fence", "{", "}", "t", "1", " "}

RECURSIVE SeqsUpTo(_, _)
SeqsUpTo(S, n) ==
    IF n = 0 THEN {<< >>}
    ELSE LET shorter == SeqsUpTo(S, n - 1)
         IN  shorter \cup {Append(s, x) : s \in {q \in shorter : Len(q) = n - 1}, x \in S}

\* the content of a model reply
Texts == SeqsUpTo(Tokens, MaxText)

\* an Error object
Error(name, message) == [name |-> name, message |-> message]

\* String.prototype.replace(/tok/g, '')
replaceAll(s, tok) == SelectSeq(s, LAMBDA c : c # tok)

\* String.prototype.indexOf and lastIndexOf: positions count from 0, -1 is none
indexOf(s, tok) ==
    LET found == {i \in 1..Len(s) : s[i] = tok}
    IN  IF found = {} THEN -1 ELSE (CHOOSE i \in found : \A j \in found : i <= j) - 1

lastIndexOf(s, tok) ==
    LET found == {i \in 1..Len(s) : s[i] = tok}
    IN  IF found = {} THEN -1 ELSE (CHOOSE i \in found : \A j \in found : i >= j) - 1

\* String.prototype.substring(from, to): the arguments are swapped when from > to
substring(s, from, to) ==
    IF from <= to THEN SubSeq(s, from + 1, to) ELSE SubSeq(s, to + 1, from)

\* what reading a property that a value does not have gives
Undefined == <<"undefined">>

\* JSON.parse of a text: an object with its members, or a number; anything else
\* throws.  White space around the value and between the members is skipped.
\* items is what value.items reads.
JSONparseText(text) ==
    LET t == trim(text)
    IN  IF t = <<"1">>
        THEN [threw |-> FALSE, value |-> [type |-> "number", items |-> Undefined]]
        ELSE IF /\ Len(t) >= 2
                /\ t[1] = "{"
                /\ t[Len(t)] = "}"
                /\ \A i \in 2..(Len(t) - 1) : t[i] \in {"t", " "}
             THEN [threw |-> FALSE,
                   value |-> [type  |-> "object",
                              items |-> replaceAll(SubSeq(t, 2, Len(t) - 1), " ")]]
             ELSE [threw |-> TRUE, value |-> NULL]

MalformedMessage == "AI response error. Please try again."

\* parseAIResponse that parses the whole cleaned text, braces not looked for
parseAIResponse_WholeText(content) ==
    LET parsed == JSONparseText(trim(replaceAll(replaceAll(content, "fence-json"), "fence")))
    IN  IF parsed.threw
        THEN [threw |-> TRUE, ret |-> Error("Error", MalformedMessage)]
        ELSE [threw |-> FALSE, ret |-> parsed.value]

\* parseAIResponse that throws when the text has no pair of braces
parseAIResponse_BracesRequired(content) ==
    LET cleaned == trim(replaceAll(replaceAll(content, "fence-json"), "fence"))
        start   == indexOf(cleaned, "{")
        end     == lastIndexOf(cleaned, "}")
        parsed  == JSONparseText(substring(cleaned, start, end + 1))
    IN  IF start = -1 \/ end = -1 \/ parsed.threw
        THEN [threw |-> TRUE, ret |-> Error("Error", MalformedMessage)]
        ELSE [threw |-> FALSE, ret |-> parsed.value]

parseAIResponse(content) ==
    LET cleaned      == trim(replaceAll(replaceAll(content, "fence-json"), "fence"))
        start        == indexOf(cleaned, "{")
        end          == lastIndexOf(cleaned, "}")
        cleanContent == IF start # -1 /\ end # -1
                        THEN substring(cleaned, start, end + 1)
                        ELSE cleaned
        parsed       == JSONparseText(cleanContent)
    IN  IF parsed.threw
        THEN [threw |-> TRUE, ret |-> Error("Error", MalformedMessage)]
        ELSE [threw |-> FALSE, ret |-> parsed.value]

\* the content of the replies that the service calls are given
ReplyTexts == SeqsUpTo(Tokens, MaxReply)

\* error.message of an upstream error body
UpstreamMessages == {"Rate limit exceeded", "AI response error. Please try again.", ""}

\* the body of an HTTP response: text that is not JSON, a JSON object with an
\* error (its message a string, or missing: NULL), or a JSON object with choices
\* whose first message has the content
Bodies ==
    {[kind |-> "html", message |-> NULL, content |-> << >>]}
      \cup {[kind |-> "error", message |-> m, content |-> << >>] :
               m \in UpstreamMessages \cup {NULL}}
      \cup {[kind |-> "choices", message |-> NULL, content |-> c] : c \in ReplyTexts}

\* what fetch settles with: a rejection (no connection), or a response with
\* its ok flag and its body
Responses ==
    {[settled |-> "rejected", ok |-> FALSE, body |-> [kind |-> "html", message |-> NULL, content |-> << >>]]}
      \cup {[settled |-> "response", ok |-> ok, body |-> b] : ok \in BOOLEAN, b \in Bodies}

\* a MIME type, as <<type, subtype>>
ImageTypes == {<<"image", "jpeg">>}

AudioTypes == {<<"audio", "webm">>, <<"audio", "wav">>}

Languages == {"English", "Spanish"}

\* the outcome of a service call: thrown or returned value, and the requests it sent
Settled(threw, ret, sent) == [threw |-> threw, ret |-> ret, sent |-> sent]

\* response.json(), then the handling of the status and of the content
readResponse(response, fallback, sent) ==
    IF response.settled = "rejected"
    THEN Settled(TRUE, Error("TypeError", "Failed to fetch"), sent)
    ELSE IF response.body.kind = "html"
    THEN Settled(TRUE, Error("SyntaxError", "Unexpected token"), sent)
    ELSE IF ~response.ok
    THEN Settled(TRUE,
                 Error("Error", IF response.body.message \in {NULL, ""}
                                THEN fallback
                                ELSE response.body.message),
                 sent)
    ELSE IF response.body.kind # "choices"
    THEN Settled(TRUE, Error("TypeError", "Cannot read properties of undefined"), sent)
    ELSE LET parsed == parseAIResponse(response.body.content)
         IN  Settled(parsed.threw, parsed.ret, sent)

\* extractAndTranslate; apiKey tells whether VITE_OPENROUTER_API_KEY is set
extractAndTranslate(apiKey, mimeType, lang, response) ==
    IF ~apiKey THEN Settled(TRUE, Error("Error", "API Key missing"), << >>)
    ELSE readResponse(response, "AI Provider busy. Try again in 1 minute.",
                      <<[type     |-> "image_url",
                         mimeType |-> mimeType,
                         format   |-> NULL,
                         language |-> lang]>>)

translateAudio(apiKey, mimeType, lang, response) ==
    readResponse(response, "Audio provider error",
                 <<[type     |-> "input_audio",
                    mimeType |-> NULL,
                    format   |-> "wav",
                    language |-> lang]>>)

(***************************************************************************)
(* State after page load: nothing has been called; each localStorage entry *)
(* is absent or holds what an earlier page left there, possibly damaged.   *)
(***************************************************************************)
NoAI == [op |-> "none"]

NoLogin == [email |-> << >>, pass |-> "", ret |-> FALSE]

NoCall == [op |-> "none", arg |-> << >>, threw |-> FALSE, ret |-> NULL, changed |-> FALSE]

DamagedOrAbsent == {RawNull, RawEmpty, RawGarbage, RawObject}

InitController ==
    /\ isAuthenticated = FALSE
    /\ userData = [email |-> << >>, password |-> ""]
    /\ status = "IDLE"
    /\ results = << >>
    /\ activeHistoryId = NULL
    /\ error = NULL
    /\ targetLanguage = "English"
    /\ imagePreview = NULL
    /\ pending = << >>
    /\ capturedImage = NULL
    /\ isCameraActive = FALSE
    /\ isCameraReady = FALSE
    /\ isInitializingRef = FALSE
    /\ streamRef = NULL
    /\ cameraPending = 0
    /\ liveStreams = 0
    /\ isRecording = FALSE
    /\ mediaRecorderRef = 0
    /\ showHistory = FALSE
    /\ panelHistory = << >>
    /\ userActions = 0
    /\ lastLogin = NoLogin

InitApp ==
    /\ InitController
    /\ ai = NoAI
    /\ requests = << >>

(***************************************************************************)
(* databaseService calls as steps.  call records the operation that ran,   *)
(* whether it threw, what it returned and whether it changed the store     *)
(* (and, for getUserHistory and the calls on the user list, the email      *)
(* argument).                                                              *)
(***************************************************************************)
Called(op, arg, outcome, before) ==
    [op |-> op, arg |-> arg, threw |-> outcome.threw, ret |-> outcome.ret,
     changed |-> outcome.store # before]

SaveHistory(email, in, newId, now) ==
    LET outcome == saveHistory(storedHistory, email, in.type, in.targetLanguage,
                               in.items, newId, now)
    IN  /\ Len(getRawHistory(storedHistory).value) < MaxHistory
        /\ storedHistory' = outcome.store
        /\ call' = Called("saveHistory", << >>, outcome, storedHistory)
        /\ UNCHANGED storedUsers

GetUserHistory(email) ==
    LET outcome == getUserHistory(storedHistory, email)
    IN  /\ storedHistory' = outcome.store
        /\ call' = Called("getUserHistory", email, outcome, storedHistory)
        /\ UNCHANGED storedUsers

ClearUserHistory(email) ==
    LET outcome == clearUserHistory(storedHistory, email)
    IN  /\ storedHistory' = outcome.store
        /\ call' = Called("clearUserHistory", << >>, outcome, storedHistory)
        /\ UNCHANGED storedUsers

DeleteHistoryItem(email, itemId) ==
    LET outcome == deleteHistoryItem(storedHistory, email, itemId)
    IN  /\ storedHistory' = outcome.store
        /\ call' = Called("deleteHistoryItem", << >>, outcome, storedHistory)
        /\ UNCHANGED storedUsers

RegisterUser(email, password) ==
    LET outcome == registerUser(storedUsers, email, password)
    IN  /\ storedUsers' = outcome.store
        /\ call' = Called("registerUser", email, outcome, storedUsers)
        /\ UNCHANGED storedHistory

VerifyUser(email, password) ==
    LET outcome == verifyUser(storedUsers, email, password)
    IN  /\ storedUsers' = outcome.store
        /\ call' = Called("verifyUser", email, outcome, storedUsers)
        /\ UNCHANGED storedHistory

(***************************************************************************)
(* SpecHistory: the history store under saveHistory, clearUserHistory and  *)
(* deleteHistoryItem, from any starting content.  None of the three reads  *)
(* a timestamp, so the clock stands still here.                            *)
(***************************************************************************)
InitHistory ==
    /\ storedHistory \in DamagedOrAbsent
    /\ storedUsers = RawNull
    /\ call = NoCall
    /\ savedLog = << >>
    /\ InitApp

DoSaveHistory ==
    \E email \in Emails, in \in SaveInputs, newId \in IdPool, now \in {1} :
        SaveHistory(email, in, newId, now) /\ UNCHANGED <<savedLog, appVars>>

DoClearUserHistory ==
    \E email \in Emails : ClearUserHistory(email) /\ UNCHANGED <<savedLog, appVars>>

DoDeleteHistoryItem ==
    \E email \in Emails, itemId \in ItemIds :
        DeleteHistoryItem(email, itemId) /\ UNCHANGED <<savedLog, appVars>>

NextHistory ==
    \/ DoSaveHistory
    \/ DoClearUserHistory
    \/ DoDeleteHistoryItem

SpecHistory == InitHistory /\ [][NextHistory]_vars

(***************************************************************************)
(* SpecSave: saveHistory calls only, each one logged with its arguments    *)
(* and what it returned, and getUserHistory.  The clock may read anything. *)
(***************************************************************************)
DoSaveHistoryLogged ==
    \E email \in Emails, newId \in {"id1"}, now \in Times :
        /\ Len(savedLog) < MaxHistory
        /\ SaveHistory(email, ScanInput, newId, now)
        /\ savedLog' = Append(savedLog, [email |-> email, in |-> ScanInput,
                                         now |-> now, threw |-> call'.threw,
                                         ret |-> call'.ret])
        /\ UNCHANGED appVars

DoGetUserHistory ==
    \E email \in Emails : GetUserHistory(email) /\ UNCHANGED <<savedLog, appVars>>

NextSave ==
    \/ DoSaveHistoryLogged
    \/ DoGetUserHistory

SpecSave == InitHistory /\ [][NextSave]_vars

(***************************************************************************)
(* SpecUsers: the user list under registerUser and verifyUser, and reads   *)
(* of a history entry that nothing has written, from any starting content. *)
(***************************************************************************)
InitUsers ==
    /\ storedHistory \in DamagedOrAbsent
    /\ storedUsers \in DamagedOrAbsent
    /\ call = NoCall
    /\ savedLog = << >>
    /\ InitApp

DoRegisterUser ==
    \E email \in Emails, password \in Passwords :
        RegisterUser(email, password) /\ UNCHANGED <<savedLog, appVars>>

DoVerifyUser ==
    \E email \in Emails, password \in Passwords :
        VerifyUser(email, password) /\ UNCHANGED <<savedLog, appVars>>

NextUsers ==
    \/ DoRegisterUser
    \/ DoVerifyUser
    \/ DoGetUserHistory

SpecUsers == InitUsers /\ [][NextUsers]_vars

(***************************************************************************)
(* SpecStore: both stores under every databaseService operation, the       *)
(* writes followed by reads.  Scans only, generateId giving one value, one *)
(* password to register with, at most MaxStored records, MaxUsers users.   *)
(***************************************************************************)
DoSaveScan ==
    \E email \in Emails, newId \in {"id1"}, now \in Times :
        /\ Len(getRawHistory(storedHistory).value) < MaxStored
        /\ SaveHistory(email, ScanInput, newId, now)
        /\ UNCHANGED <<savedLog, appVars>>

DoRegisterFirst ==
    \E email \in Emails, password \in {"p1"} :
        /\ Len(getRawUsers(storedUsers).value) < MaxUsers
        /\ RegisterUser(email, password)
        /\ UNCHANGED <<savedLog, appVars>>

NextStore ==
    \/ DoSaveScan
    \/ DoClearUserHistory
    \/ DoDeleteHistoryItem
    \/ DoGetUserHistory
    \/ DoRegisterFirst
    \/ DoVerifyUser

SpecStore == InitUsers /\ [][NextStore]_vars

(***************************************************************************)
(* SpecAI: one call of parseAIResponse, extractAndTranslate or             *)
(* translateAudio with any arguments and any upstream response.            *)
(***************************************************************************)
ParseCalls ==
    {[op |-> "parseAIResponse", done |-> FALSE, content |-> c] : c \in Texts}

ServiceCalls ==
    {[op |-> "extractAndTranslate", done |-> FALSE, apiKey |-> k, mimeType |-> m,
      language |-> l, response |-> r] :
        k \in BOOLEAN, m \in ImageTypes, l \in Languages, r \in Responses}
      \cup
    {[op |-> "translateAudio", done |-> FALSE, apiKey |-> k, mimeType |-> m,
      language |-> l, response |-> r] :
        k \in BOOLEAN, m \in AudioTypes, l \in Languages, r \in Responses}

InitAI ==
    /\ storedHistory = RawNull
    /\ storedUsers = RawNull
    /\ call = NoCall
    /\ savedLog = << >>
    /\ InitController
    /\ ai \in ParseCalls \cup ServiceCalls
    /\ requests = << >>

ParseAIResponse ==
    /\ ai.op = "parseAIResponse"
    /\ ~ai.done
    /\ LET outcome == parseAIResponse(ai.content)
       IN  ai' = [ai EXCEPT !.done = TRUE] @@ [threw |-> outcome.threw, ret |-> outcome.ret]
    /\ UNCHANGED <<storedHistory, storedUsers, call, savedLog, isAuthenticated,
                   userData, status, results, activeHistoryId, error, targetLanguage,
                   imagePreview, pending, ctlVars, requests, lastLogin>>

ExtractAndTranslate ==
    /\ ai.op = "extractAndTranslate"
    /\ ~ai.done
    /\ LET outcome == extractAndTranslate(ai.apiKey, ai.mimeType, ai.language, ai.response)
       IN  /\ ai' = [ai EXCEPT !.done = TRUE] @@ [threw |-> outcome.threw, ret |-> outcome.ret]
           /\ requests' = requests \o outcome.sent
    /\ UNCHANGED <<storedHistory, storedUsers, call, savedLog, isAuthenticated,
                   userData, status, results, activeHistoryId, error, targetLanguage,
                   imagePreview, pending, ctlVars, lastLogin>>

TranslateAudio ==
    /\ ai.op = "translateAudio"
    /\ ~ai.done
    /\ LET outcome == translateAudio(ai.apiKey, ai.mimeType, ai.language, ai.response)
       IN  /\ ai' = [ai EXCEPT !.done = TRUE] @@ [threw |-> outcome.threw, ret |-> outcome.ret]
           /\ requests' = requests \o outcome.sent
    /\ UNCHANGED <<storedHistory, storedUsers, call, savedLog, isAuthenticated,
                   userData, status, results, activeHistoryId, error, targetLanguage,
                   imagePreview, pending, ctlVars, lastLogin>>

NextAI ==
    \/ ParseAIResponse
    \/ ExtractAndTranslate
    \/ TranslateAudio

SpecAI == InitAI /\ [][NextAI]_vars

(***************************************************************************)
(* App.  The views of the authenticated render:                            *)
(*   the landing view, while nothing is previewed, captured or recorded;   *)
(*   the recording overlay, while isRecording;                             *)
(*   the image view, while the camera is active or an image is shown;      *)
(*   the HistoryPanel overlay, while showHistory.                          *)
(* An operation under way (pending) is an upload, a confirmed capture or a *)
(* recording, with the userData.email and targetLanguage of the render in  *)
(* which its callbacks were made.                                          *)
(***************************************************************************)
DEMO_PASSWORD == "password123"

\* what the AuthPage form submits: both inputs are required, and an input of
\* type email holds no surrounding white space
FormEmails == {email \in Emails : email # << >> /\ trim(email) = email}

FormPasswords == {"p1", DEMO_PASSWORD}

\* the upstream responses that the operations of the App are given
AppResponses ==
    {r \in Responses :
        /\ r.settled = "response"
        /\ \/ /\ r.ok
              /\ r.body.kind = "choices"
              /\ r.body.content \in {<<"{", "t", "}">>, <<"1">>}
           \/ /\ ~r.ok
              /\ r.body.kind = "error"
              /\ r.body.message = "Rate limit exceeded"}

\* the App is rendered: with results undefined, results.length throws in the
\* render and in the effect that scrolls to the results, nothing catches it and
\* React unmounts the whole App
Mounted == results # Undefined

LandingView ==
    /\ Mounted
    /\ isAuthenticated
    /\ ~showHistory
    /\ imagePreview = NULL
    /\ ~isCameraActive
    /\ capturedImage = NULL
    /\ ~isRecording

ImageView ==
    /\ Mounted
    /\ isAuthenticated
    /\ ~showHistory
    /\ ~isRecording
    /\ (isCameraActive \/ capturedImage # NULL \/ imagePreview # NULL)

\* the results block, drawn in the landing view and in the image view
ResultsShown ==
    /\ LandingView \/ (ImageView /\ ~(isCameraActive /\ capturedImage = NULL))
    /\ results # << >>
    /\ status = "SUCCESS"

\* handleLogin that signs the user in whatever the password
HandleLogin_AnyPassword(email, pass) ==
    /\ Mounted
    /\ ~isAuthenticated
    /\ userData' = [email |-> email, password |-> pass]
    /\ isAuthenticated' = TRUE
    /\ call' = IF pass = DEMO_PASSWORD THEN call
               ELSE Called("verifyUser", email, verifyUser(storedUsers, email, pass),
                           storedUsers)
    /\ panelHistory' = IF showHistory
                       THEN getUserHistory(storedHistory, email).ret
                       ELSE panelHistory
    /\ lastLogin' = [email |-> email, pass |-> pass, ret |-> TRUE]
    /\ UNCHANGED aiVars
    /\ UNCHANGED <<storedHistory, storedUsers, savedLog, status, results,
                   activeHistoryId, error, targetLanguage, imagePreview, pending,
                   capturedImage, cameraVars, isRecording, mediaRecorderRef,
                   showHistory, userActions>>

\* handleLogin, called by AuthPage.handleSubmit while the user is signed out.
\* A HistoryPanel left open at sign-out is mounted again and reads the history.
HandleLogin(email, pass) ==
    /\ Mounted
    /\ ~isAuthenticated
    /\ IF pass = DEMO_PASSWORD
       THEN /\ userData' = [email |-> email, password |-> pass]
            /\ isAuthenticated' = TRUE
            /\ UNCHANGED call
       ELSE LET outcome == verifyUser(storedUsers, email, pass)
            IN  /\ call' = Called("verifyUser", email, outcome, storedUsers)
                /\ IF ~outcome.threw /\ outcome.ret = TRUE
                   THEN /\ userData' = [email |-> email, password |-> pass]
                        /\ isAuthenticated' = TRUE
                   ELSE UNCHANGED <<userData, isAuthenticated>>
    /\ panelHistory' = IF isAuthenticated' /\ showHistory
                       THEN getUserHistory(storedHistory, email).ret
                       ELSE panelHistory
    /\ lastLogin' = [email |-> email, pass |-> pass, ret |-> isAuthenticated']
    /\ UNCHANGED aiVars
    /\ UNCHANGED <<storedHistory, storedUsers, savedLog, status, results,
                   activeHistoryId, error, targetLanguage, imagePreview, pending,
                   capturedImage, cameraVars, isRecording, mediaRecorderRef,
                   showHistory, userActions>>

\* handleSignUp, called by AuthPage.handleSubmit, which catches what it throws
HandleSignUp(email, pass) ==
    /\ Mounted
    /\ ~isAuthenticated
    /\ RegisterUser(email, pass)
    /\ UNCHANGED <<savedLog, appVars>>

\* Header.onSignOut
SignOut ==
    /\ Mounted
    /\ isAuthenticated
    /\ ~showHistory
    /\ ~isRecording
    /\ isAuthenticated' = FALSE
    /\ UNCHANGED <<aiVars, lastLogin>>
    /\ UNCHANGED ctlVars
    /\ UNCHANGED <<storedHistory, storedUsers, call, savedLog, userData, status,
                   results, activeHistoryId, error, targetLanguage, imagePreview,
                   pending>>

\* a new operation under way, made in the present render; abandoned tells
\* whether reset has run since the provider was asked
NewPending(kind, stage) ==
    [id             |-> userActions + 1,
     kind           |-> kind,
     stage          |-> stage,
     abandoned      |-> FALSE,
     email          |-> userData.email,
     targetLanguage |-> targetLanguage]

\* handleFileChange with a file chosen, from the landing view
HandleFileChange(tooLarge) ==
    /\ LandingView
    /\ Len(pending) < MaxPending
    /\ userActions < MaxActions
    /\ results' = << >>
    /\ activeHistoryId' = NULL
    /\ status' = "IDLE"
    /\ IF tooLarge
       THEN /\ error' = "File is too large."
            /\ UNCHANGED <<pending, userActions>>
       ELSE /\ error' = NULL
            /\ pending' = Append(pending, NewPending("upload", "reading"))
            /\ userActions' = userActions + 1
    /\ UNCHANGED <<aiVars, lastLogin>>
    /\ UNCHANGED <<storedHistory, storedUsers, call, savedLog, isAuthenticated,
                   userData, targetLanguage, imagePreview, capturedImage, cameraVars,
                   isRecording, mediaRecorderRef, showHistory, panelHistory>>

\* reader.onload of upload i
ReaderOnLoad(i) ==
    /\ Mounted
    /\ i \in 1..Len(pending)
    /\ pending[i].stage = "reading"
    /\ imagePreview' = "dataUrl"
    /\ pending' = [pending EXCEPT ![i].stage = "loading"]
    /\ UNCHANGED <<aiVars, lastLogin>>
    /\ UNCHANGED ctlVars
    /\ UNCHANGED <<storedHistory, storedUsers, call, savedLog, isAuthenticated,
                   userData, status, results, activeHistoryId, error, targetLanguage>>

\* confirmCapture, from the button of the image view: shown while there are no
\* results or the status is ERROR, disabled while PROCESSING or without a capture
ConfirmCapture ==
    /\ ImageView
    /\ ~(isCameraActive /\ capturedImage = NULL)
    /\ results = << >> \/ status = "ERROR"
    /\ status # "PROCESSING"
    /\ capturedImage # NULL
    /\ Len(pending) < MaxPending
    /\ userActions < MaxActions
    /\ pending' = Append(pending, NewPending("capture", "loading"))
    /\ userActions' = userActions + 1
    /\ UNCHANGED <<aiVars, lastLogin>>
    /\ UNCHANGED <<storedHistory, storedUsers, call, savedLog, isAuthenticated,
                   userData, status, results, activeHistoryId, error, targetLanguage,
                   imagePreview, capturedImage, cameraVars, isRecording,
                   mediaRecorderRef, showHistory, panelHistory>>

\* img.onload of upload or capture i: processAndTranslate up to its first await
ProcessAndTranslateStart(i) ==
    /\ Mounted
    /\ i \in 1..Len(pending)
    /\ pending[i].stage = "loading"
    /\ status' = "PROCESSING"
    /\ error' = NULL
    /\ activeHistoryId' = NULL
    /\ pending' = [pending EXCEPT ![i].stage = "extracting"]
    /\ UNCHANGED <<aiVars, lastLogin>>
    /\ UNCHANGED ctlVars
    /\ UNCHANGED <<storedHistory, storedUsers, call, savedLog, isAuthenticated,
                   userData, results, targetLanguage, imagePreview>>

\* the aiService call of operation i made again when it failed
ServiceOutcome_Retry(i, apiKey, response) ==
    LET outcome == IF pending[i].kind = "audio"
                   THEN translateAudio(apiKey, <<"audio", "webm">>,
                                       pending[i].targetLanguage, response)
                   ELSE extractAndTranslate(apiKey, <<"image", "jpeg">>,
                                            pending[i].targetLanguage, response)
    IN  IF outcome.threw
        THEN Settled(outcome.threw, outcome.ret, outcome.sent \o outcome.sent)
        ELSE outcome

\* the aiService call of operation i, given the response
ServiceOutcome(i, apiKey, response) ==
    IF pending[i].kind = "audio"
    THEN translateAudio(apiKey, <<"audio", "webm">>, pending[i].targetLanguage, response)
    ELSE extractAndTranslate(apiKey, <<"image", "jpeg">>, pending[i].targetLanguage,
                             response)

\* processAndTranslate of operation i after its awaits, extractAndTranslate
\* having returned items
ProcessAndTranslateSuccess(i, apiKey, response, newId, now) ==
    /\ Mounted
    /\ i \in 1..Len(pending)
    /\ pending[i].stage = "extracting"
    /\ LET outcome == ServiceOutcome(i, apiKey, response)
       IN  /\ ~outcome.threw
           /\ outcome.ret.items \notin {Undefined, << >>}
           /\ results' = outcome.ret.items
           /\ SaveHistory(pending[i].email,
                          [type           |-> "scan",
                           targetLanguage |-> pending[i].targetLanguage,
                           items          |-> outcome.ret.items],
                          newId, now)
           /\ requests' = requests \o outcome.sent
           /\ UNCHANGED <<ai, lastLogin>>
    /\ activeHistoryId' = call'.ret
    /\ status' = "SUCCESS"
    /\ pending' = splice1(pending, i)
    /\ UNCHANGED ctlVars
    /\ UNCHANGED <<savedLog, isAuthenticated, userData, error, targetLanguage,
                   imagePreview>>

\* processAndTranslate of operation i after normalizeImage threw (normalized
\* false), extractAndTranslate threw, or no items were returned
ProcessAndTranslateError(i, normalized, apiKey, response) ==
    /\ Mounted
    /\ i \in 1..Len(pending)
    /\ pending[i].stage = "extracting"
    /\ IF ~normalized
       THEN /\ error' = "We couldn't detect the size of your image."
            /\ UNCHANGED <<aiVars, lastLogin>>
       ELSE LET outcome == ServiceOutcome(i, apiKey, response)
            IN  /\ IF outcome.threw THEN TRUE
                       ELSE outcome.ret.items \in {Undefined, << >>}
                /\ error' = IF outcome.threw THEN outcome.ret.message
                            ELSE "We couldn't find any clear text."
                /\ requests' = requests \o outcome.sent
                /\ UNCHANGED <<ai, lastLogin>>
    /\ status' = "ERROR"
    /\ pending' = splice1(pending, i)
    /\ UNCHANGED ctlVars
    /\ UNCHANGED <<storedHistory, storedUsers, call, savedLog, isAuthenticated,
                   userData, results, activeHistoryId, targetLanguage, imagePreview>>

Init ==
    /\ storedHistory = RawNull
    /\ storedUsers = RawNull
    /\ call = NoCall
    /\ savedLog = << >>
    /\ InitApp

Next ==
    \/ \E email \in FormEmails, pass \in FormPasswords : HandleLogin(email, pass)
    \/ \E email \in FormEmails, pass \in FormPasswords : HandleSignUp(email, pass)
    \/ SignOut
    \/ \E tooLarge \in BOOLEAN : HandleFileChange(tooLarge)
    \/ \E i \in 1..MaxPending : ReaderOnLoad(i)
    \/ \E i \in 1..MaxPending : ProcessAndTranslateStart(i)
    \/ \E i \in 1..MaxPending, response \in AppResponses, newId \in IdPool, now \in {1} :
           ProcessAndTranslateSuccess(i, TRUE, response, newId, now)
    \/ \E i \in 1..MaxPending, response \in AppResponses :
           ProcessAndTranslateError(i, TRUE, TRUE, response)

Spec == Init /\ [][Next]_vars

(***************************************************************************)
(* The camera, the recorder, reset and the HistoryPanel                    *)
(***************************************************************************)
\* stopCamera
StopCameraEffects ==
    /\ isInitializingRef' = FALSE
    /\ liveStreams' = IF streamRef # NULL THEN liveStreams - 1 ELSE liveStreams
    /\ streamRef' = NULL
    /\ isCameraActive' = FALSE
    /\ isCameraReady' = FALSE

\* the part of startCamera before its first await; nothing when it is already
\* initializing
StartCameraEffects ==
    IF isInitializingRef
    THEN UNCHANGED <<error, imagePreview, cameraVars>>
    ELSE /\ isInitializingRef' = TRUE
         /\ error' = NULL
         /\ imagePreview' = NULL
         /\ isCameraReady' = FALSE
         /\ isCameraActive' = TRUE
         /\ cameraPending' = cameraPending + 1
         /\ UNCHANGED <<streamRef, liveStreams>>

\* startCamera, from the landing view
StartCamera ==
    /\ LandingView
    /\ ~isInitializingRef
    /\ cameraPending < MaxPending
    /\ liveStreams + cameraPending < MaxLive
    /\ StartCameraEffects
    /\ capturedImage' = NULL
    /\ results' = << >>
    /\ UNCHANGED <<aiVars, lastLogin>>
    /\ UNCHANGED <<storedHistory, storedUsers, call, savedLog, isAuthenticated,
                   userData, status, activeHistoryId, targetLanguage, pending,
                   isRecording, mediaRecorderRef, showHistory, panelHistory,
                   userActions>>

\* getUserMedia of a startCamera resolves: the stream is stopped when the start
\* was cancelled meanwhile, attached to streamRef and to the video otherwise
GetUserMediaResolved ==
    /\ Mounted
    /\ cameraPending > 0
    /\ cameraPending' = cameraPending - 1
    /\ streamRef' = IF isInitializingRef THEN "stream" ELSE streamRef
    /\ liveStreams' = IF isInitializingRef THEN liveStreams + 1 ELSE liveStreams
    /\ isInitializingRef' = FALSE
    /\ UNCHANGED <<aiVars, lastLogin>>
    /\ UNCHANGED <<storedHistory, storedUsers, call, savedLog, isAuthenticated,
                   userData, status, results, activeHistoryId, error, targetLanguage,
                   imagePreview, pending, capturedImage, isCameraActive,
                   isCameraReady, isRecording, mediaRecorderRef, showHistory,
                   panelHistory, userActions>>

\* both getUserMedia calls of a startCamera reject
GetUserMediaRejected ==
    /\ Mounted
    /\ cameraPending > 0
    /\ cameraPending' = cameraPending - 1
    /\ isCameraActive' = FALSE
    /\ error' = "Could not access camera. Please check permissions."
    /\ isInitializingRef' = FALSE
    /\ UNCHANGED <<aiVars, lastLogin>>
    /\ UNCHANGED <<storedHistory, storedUsers, call, savedLog, isAuthenticated,
                   userData, status, results, activeHistoryId, targetLanguage,
                   imagePreview, pending, capturedImage, isCameraReady, streamRef,
                   liveStreams, isRecording, mediaRecorderRef, showHistory, panelHistory,
                   userActions>>

\* onVideoReady, or the interval that polls the video, with the video playing
OnVideoReady ==
    /\ Mounted
    /\ isAuthenticated
    /\ isCameraActive
    /\ ~isCameraReady
    /\ streamRef # NULL
    /\ isCameraReady' = TRUE
    /\ UNCHANGED <<aiVars, lastLogin>>
    /\ UNCHANGED <<storedHistory, storedUsers, call, savedLog, isAuthenticated,
                   userData, status, results, activeHistoryId, error, targetLanguage,
                   imagePreview, pending, capturedImage, isCameraActive,
                   isInitializingRef, streamRef, cameraPending, liveStreams, isRecording,
                   mediaRecorderRef, showHistory, panelHistory, userActions>>

\* stopCamera, from the Cancel button of the live camera
StopCamera ==
    /\ ImageView
    /\ isCameraActive
    /\ capturedImage = NULL
    /\ StopCameraEffects
    /\ UNCHANGED <<aiVars, lastLogin>>
    /\ UNCHANGED <<storedHistory, storedUsers, call, savedLog, isAuthenticated,
                   userData, status, results, activeHistoryId, error, targetLanguage,
                   imagePreview, pending, capturedImage, cameraPending, isRecording,
                   mediaRecorderRef, showHistory, panelHistory, userActions>>

\* capturePhoto, from the shutter button, enabled while isCameraReady; drawn is
\* false when the canvas context cannot be made
CapturePhoto(drawn) ==
    /\ ImageView
    /\ isCameraActive
    /\ capturedImage = NULL
    /\ isCameraReady
    /\ IF drawn
       THEN /\ capturedImage' = "dataUrl"
            /\ StopCameraEffects
            /\ UNCHANGED error
       ELSE /\ error' = "Failed to capture image."
            /\ UNCHANGED <<capturedImage, isInitializingRef, streamRef, liveStreams,
                           isCameraActive, isCameraReady>>
    /\ UNCHANGED <<aiVars, lastLogin>>
    /\ UNCHANGED <<storedHistory, storedUsers, call, savedLog, isAuthenticated,
                   userData, status, results, activeHistoryId, targetLanguage,
                   imagePreview, pending, cameraPending, isRecording,
                   mediaRecorderRef, showHistory, panelHistory, userActions>>

\* retakePhoto, from the button shown with results beside an image
RetakePhoto ==
    /\ ImageView
    /\ ~(isCameraActive /\ capturedImage = NULL)
    /\ results # << >>
    /\ capturedImage # NULL \/ imagePreview # NULL
    /\ cameraPending < MaxPending
    /\ liveStreams + cameraPending < MaxLive
    /\ capturedImage' = NULL
    /\ results' = << >>
    /\ activeHistoryId' = NULL
    /\ StartCameraEffects
    /\ UNCHANGED <<aiVars, lastLogin>>
    /\ UNCHANGED <<storedHistory, storedUsers, call, savedLog, isAuthenticated,
                   userData, status, targetLanguage, pending, isRecording,
                   mediaRecorderRef, showHistory, panelHistory, userActions>>

\* startRecording, from the landing view, up to its await of getUserMedia
StartRecording ==
    /\ LandingView
    /\ Len(pending) < MaxPending
    /\ userActions < MaxActions
    /\ error' = NULL
    /\ results' = << >>
    /\ activeHistoryId' = NULL
    /\ pending' = Append(pending, NewPending("audio", "acquiring"))
    /\ userActions' = userActions + 1
    /\ UNCHANGED <<aiVars, lastLogin>>
    /\ UNCHANGED <<storedHistory, storedUsers, call, savedLog, isAuthenticated,
                   userData, status, targetLanguage, imagePreview, capturedImage,
                   cameraVars, isRecording, mediaRecorderRef, showHistory,
                   panelHistory>>

\* getUserMedia of recording i resolves: the recorder is made and started
MicrophoneGranted(i) ==
    /\ Mounted
    /\ i \in 1..Len(pending)
    /\ pending[i].stage = "acquiring"
    /\ pending' = [pending EXCEPT ![i].stage = "recording"]
    /\ mediaRecorderRef' = pending[i].id
    /\ isRecording' = TRUE
    /\ UNCHANGED <<aiVars, lastLogin>>
    /\ UNCHANGED <<storedHistory, storedUsers, call, savedLog, isAuthenticated,
                   userData, status, results, activeHistoryId, error, targetLanguage,
                   imagePreview, capturedImage, cameraVars, showHistory,
                   panelHistory, userActions>>

\* getUserMedia of recording i rejects
MicrophoneDenied(i) ==
    /\ Mounted
    /\ i \in 1..Len(pending)
    /\ pending[i].stage = "acquiring"
    /\ pending' = splice1(pending, i)
    /\ error' = "Microphone access denied or not available."
    /\ UNCHANGED <<aiVars, lastLogin>>
    /\ UNCHANGED <<storedHistory, storedUsers, call, savedLog, isAuthenticated,
                   userData, status, results, activeHistoryId, targetLanguage,
                   imagePreview, capturedImage, cameraVars, isRecording,
                   mediaRecorderRef, showHistory, panelHistory, userActions>>

\* mediaRecorderRef.current.stop(): the recorder of mediaRecorderRef stops
StoppedRecorder(ops) ==
    [k \in 1..Len(ops) |->
        IF ops[k].id = mediaRecorderRef /\ ops[k].stage = "recording"
        THEN [ops[k] EXCEPT !.stage = "stopped"]
        ELSE ops[k]]

\* stopRecording: the recorder of mediaRecorderRef is stopped while isRecording
StopRecordingEffects ==
    IF mediaRecorderRef # 0 /\ isRecording
    THEN /\ pending' = StoppedRecorder(pending)
         /\ isRecording' = FALSE
    ELSE UNCHANGED <<pending, isRecording>>

\* stopRecording, from the button of the recording overlay
StopRecording ==
    /\ Mounted
    /\ isAuthenticated
    /\ isRecording
    /\ StopRecordingEffects
    /\ UNCHANGED <<aiVars, lastLogin>>
    /\ UNCHANGED <<storedHistory, storedUsers, call, savedLog, isAuthenticated,
                   userData, status, results, activeHistoryId, error, targetLanguage,
                   imagePreview, capturedImage, cameraVars, mediaRecorderRef,
                   showHistory, panelHistory, userActions>>

\* mediaRecorder.onstop of recording i, up to its first await
RecorderOnStop(i) ==
    /\ Mounted
    /\ i \in 1..Len(pending)
    /\ pending[i].stage = "stopped"
    /\ status' = "PROCESSING"
    /\ pending' = [pending EXCEPT ![i].stage = "translating"]
    /\ UNCHANGED <<aiVars, lastLogin>>
    /\ UNCHANGED ctlVars
    /\ UNCHANGED <<storedHistory, storedUsers, call, savedLog, isAuthenticated,
                   userData, results, activeHistoryId, error, targetLanguage,
                   imagePreview>>

\* mediaRecorder.onstop of recording i after translateAudio returned
TranslateAudioSuccess(i, response, newId, now) ==
    /\ Mounted
    /\ i \in 1..Len(pending)
    /\ pending[i].stage = "translating"
    /\ LET outcome == ServiceOutcome(i, TRUE, response)
       IN  /\ ~outcome.threw
           /\ results' = outcome.ret.items
           /\ SaveHistory(pending[i].email,
                          [type           |-> "audio",
                           targetLanguage |-> pending[i].targetLanguage,
                           items          |-> outcome.ret.items],
                          newId, now)
           /\ requests' = requests \o outcome.sent
           /\ UNCHANGED <<ai, lastLogin>>
    /\ activeHistoryId' = call'.ret
    /\ status' = "SUCCESS"
    /\ pending' = splice1(pending, i)
    /\ UNCHANGED ctlVars
    /\ UNCHANGED <<savedLog, isAuthenticated, userData, error, targetLanguage,
                   imagePreview>>

\* mediaRecorder.onstop of recording i after translateAudio threw
TranslateAudioError(i, response) ==
    /\ Mounted
    /\ i \in 1..Len(pending)
    /\ pending[i].stage = "translating"
    /\ LET outcome == ServiceOutcome(i, TRUE, response)
       IN  /\ outcome.threw
           /\ error' = outcome.ret.message
           /\ requests' = requests \o outcome.sent
           /\ UNCHANGED <<ai, lastLogin>>
    /\ status' = "ERROR"
    /\ pending' = splice1(pending, i)
    /\ UNCHANGED ctlVars
    /\ UNCHANGED <<storedHistory, storedUsers, call, savedLog, isAuthenticated,
                   userData, results, activeHistoryId, targetLanguage, imagePreview>>

\* the operations under way after a reset: none is cancelled; those that wait
\* for the provider are marked
Abandoned(ops) ==
    [k \in 1..Len(ops) |->
        IF ops[k].stage \in {"extracting", "translating"}
        THEN [ops[k] EXCEPT !.abandoned = TRUE]
        ELSE ops[k]]

\* reset
ResetEffects ==
    /\ StopCameraEffects
    /\ imagePreview' = NULL
    /\ capturedImage' = NULL
    /\ results' = << >>
    /\ activeHistoryId' = NULL
    /\ status' = "IDLE"
    /\ error' = NULL
    /\ IF mediaRecorderRef # 0 /\ isRecording
       THEN /\ pending' = Abandoned(StoppedRecorder(pending))
            /\ isRecording' = FALSE
       ELSE /\ pending' = Abandoned(pending)
            /\ UNCHANGED isRecording

\* reset, from the buttons of the image view and of the results block
Reset ==
    /\ ImageView \/ ResultsShown
    /\ ResetEffects
    /\ UNCHANGED <<aiVars, lastLogin>>
    /\ UNCHANGED <<storedHistory, storedUsers, call, savedLog, isAuthenticated,
                   userData, targetLanguage, cameraPending, mediaRecorderRef,
                   showHistory, panelHistory, userActions>>

\* deleteCurrentHistoryRecord, from the results block, window.confirm accepted
DeleteCurrentHistoryRecord ==
    /\ ResultsShown
    /\ activeHistoryId \notin {NULL, ""}
    /\ DeleteHistoryItem(userData.email, activeHistoryId)
    /\ ResetEffects
    /\ UNCHANGED <<aiVars, lastLogin>>
    /\ UNCHANGED <<savedLog, isAuthenticated, userData, targetLanguage,
                   cameraPending, mediaRecorderRef, showHistory, panelHistory,
                   userActions>>

\* Header.onShowHistory: the HistoryPanel mounts and reads the user's history
ShowHistory ==
    /\ Mounted
    /\ isAuthenticated
    /\ ~showHistory
    /\ ~isRecording
    /\ showHistory' = TRUE
    /\ GetUserHistory(userData.email)
    /\ panelHistory' = call'.ret
    /\ UNCHANGED <<aiVars, lastLogin>>
    /\ UNCHANGED <<savedLog, isAuthenticated, userData, status, results,
                   activeHistoryId, error, targetLanguage, imagePreview, pending,
                   capturedImage, cameraVars, isRecording, mediaRecorderRef,
                   userActions>>

\* HistoryPanel.onClose
CloseHistory ==
    /\ Mounted
    /\ isAuthenticated
    /\ showHistory
    /\ ~isRecording
    /\ showHistory' = FALSE
    /\ panelHistory' = << >>
    /\ UNCHANGED <<aiVars, lastLogin>>
    /\ UNCHANGED <<storedHistory, storedUsers, call, savedLog, isAuthenticated,
                   userData, status, results, activeHistoryId, error, targetLanguage,
                   imagePreview, pending, capturedImage, cameraVars, isRecording,
                   mediaRecorderRef, userActions>>

\* loadHistoryItem, from a record of the HistoryPanel
LoadHistoryItem(k) ==
    /\ Mounted
    /\ isAuthenticated
    /\ showHistory
    /\ ~isRecording
    /\ k \in 1..Len(panelHistory)
    /\ results' = panelHistory[k].items
    /\ targetLanguage' = panelHistory[k].targetLanguage
    /\ activeHistoryId' = panelHistory[k].id
    /\ imagePreview' = NULL
    /\ capturedImage' = NULL
    /\ status' = "SUCCESS"
    /\ showHistory' = FALSE
    /\ panelHistory' = << >>
    /\ UNCHANGED <<aiVars, lastLogin>>
    /\ UNCHANGED <<storedHistory, storedUsers, call, savedLog, isAuthenticated,
                   userData, error, pending, cameraVars, isRecording,
                   mediaRecorderRef, userActions>>

\* HistoryPanel.handleDeleteItem of record k, window.confirm accepted
PanelDeleteItem(k) ==
    /\ Mounted
    /\ isAuthenticated
    /\ showHistory
    /\ ~isRecording
    /\ k \in 1..Len(panelHistory)
    /\ DeleteHistoryItem(userData.email, panelHistory[k].id)
    /\ panelHistory' = SelectSeq(panelHistory, LAMBDA h : h.id # panelHistory[k].id)
    /\ IF panelHistory[k].id = activeHistoryId
       THEN ResetEffects
       ELSE UNCHANGED <<isInitializingRef, streamRef, liveStreams, isCameraActive,
                        isCameraReady,
                        imagePreview, capturedImage, results, activeHistoryId, status,
                        error, pending, isRecording>>
    /\ UNCHANGED <<aiVars, lastLogin>>
    /\ UNCHANGED <<savedLog, isAuthenticated, userData, targetLanguage,
                   cameraPending, mediaRecorderRef, showHistory, userActions>>

\* HistoryPanel.handleClear, window.confirm accepted
PanelClear ==
    /\ Mounted
    /\ isAuthenticated
    /\ showHistory
    /\ ~isRecording
    /\ panelHistory # << >>
    /\ ClearUserHistory(userData.email)
    /\ panelHistory' = << >>
    /\ ResetEffects
    /\ UNCHANGED <<aiVars, lastLogin>>
    /\ UNCHANGED <<savedLog, isAuthenticated, userData, targetLanguage,
                   cameraPending, mediaRecorderRef, showHistory, userActions>>

(***************************************************************************)
(* SpecController: one user, signed in with the demo password, using every *)
(* view of the App; at most MaxActions uploads, captures and recordings.   *)
(***************************************************************************)
NextController ==
    \/ \E email \in FormEmails \cap {<<"a">>} : HandleLogin(email, DEMO_PASSWORD)
    \/ \E tooLarge \in BOOLEAN : HandleFileChange(tooLarge)
    \/ \E i \in 1..MaxPending : ReaderOnLoad(i)
    \/ ConfirmCapture
    \/ \E i \in 1..MaxPending : ProcessAndTranslateStart(i)
    \/ \E i \in 1..MaxPending, response \in AppResponses, newId \in IdPool, now \in {1} :
           ProcessAndTranslateSuccess(i, TRUE, response, newId, now)
    \/ \E i \in 1..MaxPending, normalized \in BOOLEAN, response \in AppResponses :
           ProcessAndTranslateError(i, normalized, TRUE, response)
    \/ StartCamera
    \/ GetUserMediaResolved
    \/ GetUserMediaRejected
    \/ OnVideoReady
    \/ StopCamera
    \/ \E drawn \in BOOLEAN : CapturePhoto(drawn)
    \/ RetakePhoto
    \/ StartRecording
    \/ \E i \in 1..MaxPending : MicrophoneGranted(i)
    \/ \E i \in 1..MaxPending : MicrophoneDenied(i)
    \/ StopRecording
    \/ \E i \in 1..MaxPending : RecorderOnStop(i)
    \/ \E i \in 1..MaxPending, response \in AppResponses, newId \in IdPool, now \in {1} :
           TranslateAudioSuccess(i, response, newId, now)
    \/ \E i \in 1..MaxPending, response \in AppResponses : TranslateAudioError(i, response)
    \/ Reset
    \/ DeleteCurrentHistoryRecord
    \/ ShowHistory
    \/ CloseHistory
    \/ \E k \in 1..MaxHistory : LoadHistoryItem(k)
    \/ \E k \in 1..MaxHistory : PanelDeleteItem(k)
    \/ PanelClear

SpecController == Init /\ [][NextController]_vars

(***************************************************************************)
(* SpecDevices: the camera and the microphone of one user who may sign out *)
(* and in again while a stream is held or being asked for.                 *)
(***************************************************************************)
NextDevices ==
    \/ \E email \in FormEmails \cap {<<"a">>} : HandleLogin(email, DEMO_PASSWORD)
    \/ SignOut
    \/ StartCamera
    \/ GetUserMediaResolved
    \/ GetUserMediaRejected
    \/ OnVideoReady
    \/ StopCamera
    \/ \E drawn \in BOOLEAN : CapturePhoto(drawn)
    \/ StartRecording
    \/ \E i \in 1..MaxPending : MicrophoneGranted(i)
    \/ \E i \in 1..MaxPending : MicrophoneDenied(i)
    \/ StopRecording
    \/ \E i \in 1..MaxPending : RecorderOnStop(i)
    \/ \E i \in 1..MaxPending, response \in AppResponses, newId \in IdPool, now \in {1} :
           TranslateAudioSuccess(i, response, newId, now)
    \/ \E i \in 1..MaxPending, response \in AppResponses : TranslateAudioError(i, response)
    \/ Reset

SpecDevices == Init /\ [][NextDevices]_vars

(***************************************************************************)
(* Helpers of the properties                                               *)
(***************************************************************************)
\* the records of the history entry as the code reads them
History == getRawHistory(storedHistory).value

Count(s, x) == Cardinality({i \in 1..Len(s) : s[i] = x})

Range(s) == {s[i] : i \in 1..Len(s)}

\* s and t hold the same records the same number of times
SameRecords(s, t) ==
    /\ Len(s) = Len(t)
    /\ \A x \in Range(s) \cup Range(t) : Count(s, x) = Count(t, x)

\* most recent first
MostRecentFirst(s) ==
    \A i, j \in 1..Len(s) :
        i < j => getTime(s[i].timestamp) >= getTime(s[j].timestamp)

\* the record a logged saveHistory call was asked to store
RecordOf(l) ==
    [id             |-> l.ret,
     email          |-> normalizedEmail(l.email),
     type           |-> l.in.type,
     timestamp      |-> toISOString(l.now),
     targetLanguage |-> l.in.targetLanguage,
     items          |-> l.in.items]

\* the records saved, by calls that named a user, under the normalized form of email
SavedUnder(email) ==
    LET calls == SelectSeq(savedLog, LAMBDA l :
                     /\ l.email # << >>
                     /\ normalizedEmail(l.email) = normalizedEmail(email))
    IN  [i \in 1..Len(calls) |-> RecordOf(calls[i])]

ListsExactlyTheSaved(email) ==
    LET outcome == getUserHistory(storedHistory, email)
    IN  /\ ~outcome.threw
        /\ SameRecords(outcome.ret, SavedUnder(email))
        /\ MostRecentFirst(outcome.ret)

(***************************************************************************)
(* C1                                                                      *)
(***************************************************************************)
\* C1 as stated: after any sequence of saveHistory calls, getUserHistory(email)
\* returns, for every email, exactly the records saved under the normalized form
\* of that email, most recent first.
C1_AsStated == \A email \in Emails : ListsExactlyTheSaved(email)

\* C1 amended: after any sequence of saveHistory calls, for every non-empty email
\* getUserHistory(email) returns exactly and only the records saved under the
\* normalized form of that email, most recent first; for the empty email it
\* returns the empty sequence, whatever was saved under the empty normalized form.
C1_ListsExactlyTheSaved ==
    /\ \A email \in Emails \ {<< >>} : ListsExactlyTheSaved(email)
    /\ getUserHistory(storedHistory, << >>) = Return(<< >>, storedHistory)

\* getUserHistory has returned two or more records of one user, reordered, from
\* a store that also holds another user's record
C1_Witness ==
    /\ call.op = "getUserHistory"
    /\ ~call.threw
    /\ Len(call.ret) >= 2
    /\ getTime(call.ret[1].timestamp) > getTime(call.ret[Len(call.ret)].timestamp)
    /\ Len(History) > Len(call.ret)
    /\ call.ret # SelectSeq(History, LAMBDA item : item.email = call.ret[1].email)
    /\ \E l \in Range(savedLog) : l.email # normalizedEmail(l.email)

(***************************************************************************)
(* C2                                                                      *)
(***************************************************************************)
OwnedBy(item, email) == normalizedEmail(item.email) = normalizedEmail(email)

\* clearUserHistory(email) leaves no record of email and leaves the others as they
\* were, in their order
ClearsOnlyTheUser(email) ==
    LET outcome == clearUserHistory(storedHistory, email)
        after   == getRawHistory(outcome.store).value
    IN  /\ ~outcome.threw
        /\ \A i \in 1..Len(after) : ~OwnedBy(after[i], email)
        /\ after = SelectSeq(History, LAMBDA item : ~OwnedBy(item, email))

\* C2 as stated: in any reachable store state and for every email,
\* clearUserHistory(email) removes every record whose normalized owner equals the
\* normalized email and leaves every other user's record present, unchanged and
\* in the same relative order.
C2_AsStated == \A email \in Emails : ClearsOnlyTheUser(email)

\* C2 amended: the same for every non-empty email; clearUserHistory with the empty
\* email changes nothing, also when records are owned by the empty normalized form.
C2_ClearsOnlyTheUser ==
    /\ \A email \in Emails \ {<< >>} : ClearsOnlyTheUser(email)
    /\ clearUserHistory(storedHistory, << >>) = Return(NULL, storedHistory)

\* clearUserHistory has removed a user's records and two records of others remain
C2_Witness ==
    /\ call.op = "clearUserHistory"
    /\ call.changed
    /\ storedHistory.kind = "array"
    /\ Len(History) >= 2
    /\ History[1] # History[2]

(***************************************************************************)
(* C3                                                                      *)
(***************************************************************************)
\* C3: in any store state deleteHistoryItem(email, id) twice in a row leaves the
\* store that one call leaves, and a call whose normalized email differs from a
\* record's owner leaves that record in the store.
C3_Idempotent ==
    \A email \in Emails, itemId \in ItemIds :
        LET once  == deleteHistoryItem(storedHistory, email, itemId)
            twice == deleteHistoryItem(once.store, email, itemId)
            after == getRawHistory(once.store).value
        IN  /\ twice.store = once.store
            /\ \A item \in Range(History) :
                   ~OwnedBy(item, email) => Count(after, item) = Count(History, item)

UniqueIds == \A i, j \in 1..Len(History) : i # j => History[i].id # History[j].id

\* the same, in the states where no two records share an id
C3_IdempotentWhenIdsUnique == UniqueIds => C3_Idempotent

(***************************************************************************)
(* C4                                                                      *)
(***************************************************************************)
Matching(email, itemId) ==
    {i \in 1..Len(History) : History[i].id = itemId /\ OwnedBy(History[i], email)}

DeletesExactlyTheRecord(email, itemId) ==
    LET outcome == deleteHistoryItem(storedHistory, email, itemId)
        after   == getRawHistory(outcome.store).value
    IN  /\ ~outcome.threw
        /\ Matching(email, itemId) = {} => outcome.store = storedHistory
        /\ Matching(email, itemId) # {} =>
               \E i \in Matching(email, itemId) : after = splice1(History, i)

\* C4 as stated: deleteHistoryItem(email, id) removes exactly the record whose id
\* is id and whose normalized owner is the normalized email and leaves all other
\* records unchanged; when there is no such record it changes nothing and raises
\* no error.
C4_AsStated ==
    \A email \in Emails, itemId \in ItemIds : DeletesExactlyTheRecord(email, itemId)

\* C4 amended: the same for every non-empty email; with the empty email
\* deleteHistoryItem changes nothing and raises no error, also when a record with
\* that id is owned by the empty normalized form.
C4_DeletesExactlyTheRecord ==
    /\ \A email \in Emails \ {<< >>}, itemId \in ItemIds :
           DeletesExactlyTheRecord(email, itemId)
    /\ \A itemId \in ItemIds :
           deleteHistoryItem(storedHistory, << >>, itemId) = Return(NULL, storedHistory)

\* deleteHistoryItem has removed a record; two records remain, one of them with
\* the id of the other under another owner
C4_Witness ==
    /\ call.op = "deleteHistoryItem"
    /\ call.changed
    /\ ~call.threw
    /\ Len(History) = 2
    /\ History[1].id = History[2].id
    /\ History[1].email # History[2].email

(***************************************************************************)
(* C5                                                                      *)
(***************************************************************************)
SavedThenListed(email, in, newId, now) ==
    LET saved  == saveHistory(storedHistory, email, in.type, in.targetLanguage,
                              in.items, newId, now)
        listed == getUserHistory(saved.store, email)
    IN  /\ ~saved.threw
        /\ ~listed.threw
        /\ \E i \in 1..Len(listed.ret) :
               /\ listed.ret[i].items = in.items
               /\ listed.ret[i].targetLanguage = in.targetLanguage
               /\ listed.ret[i].type = in.type
               /\ listed.ret[i].id = saved.ret

\* C5 as stated: for every email, kind, targetLanguage and items, saveHistory
\* followed immediately by getUserHistory(email) lists a record with these items,
\* targetLanguage and type and with the id saveHistory returned.
C5_AsStated ==
    \A email \in Emails, in \in SaveInputs, newId \in IdPool, now \in Times :
        SavedThenListed(email, in, newId, now)

\* C5 amended: the same for every non-empty email; with the empty email
\* saveHistory returns the empty string and stores nothing.
C5_SavedThenListed ==
    /\ \A email \in Emails \ {<< >>}, in \in SaveInputs, newId \in IdPool, now \in Times :
           SavedThenListed(email, in, newId, now)
    /\ \A in \in SaveInputs, newId \in IdPool, now \in Times :
           saveHistory(storedHistory, << >>, in.type, in.targetLanguage, in.items,
                       newId, now) = Return("", storedHistory)

\* saveHistory has stored a record under the id it returned, after another record
\* of the same user and one of another user
C5_Witness ==
    /\ call.op = "saveHistory"
    /\ call.changed
    /\ call.ret \in IdPool
    /\ Len(History) = 3
    /\ History[3].id = call.ret
    /\ \E i, j \in 1..2 : /\ History[i].email = History[3].email
                          /\ History[j].email # History[3].email

(***************************************************************************)
(* C6                                                                      *)
(***************************************************************************)
\* C6: in every reachable state of the history store no two records have the same
\* id.
C6_UniqueIds == UniqueIds

(***************************************************************************)
(* C7                                                                      *)
(***************************************************************************)
Users == getRawUsers(storedUsers).value

\* C7: when the persisted history entry is missing, is not valid JSON or is JSON
\* that is not an array, getUserHistory returns an empty sequence for every email
\* and does not throw; when the persisted user list is so, verifyUser and
\* registerUser read an empty list and do not throw: verifyUser returns false and
\* registerUser stores the new user alone.
C7_DamagedReadsAsEmpty ==
    /\ storedHistory \in DamagedOrAbsent =>
           \A email \in Emails :
               getUserHistory(storedHistory, email) = Return(<< >>, storedHistory)
    /\ storedUsers \in DamagedOrAbsent =>
           \A email \in Emails, password \in Passwords :
               /\ verifyUser(storedUsers, email, password) = Return(FALSE, storedUsers)
               /\ registerUser(storedUsers, email, password) =
                      Return(NULL, JSONstringify(<<[email    |-> normalizedEmail(email),
                                                    password |-> password]>>))

\* getUserHistory has read, for a user, a history entry that is not JSON and has
\* returned normally
C7_Witness ==
    /\ call.op = "getUserHistory"
    /\ call.arg # << >>
    /\ storedHistory = RawGarbage
    /\ ~call.threw
    /\ call.ret = << >>

(***************************************************************************)
(* C8                                                                      *)
(***************************************************************************)
Registered(email) == \E u \in Range(Users) : u.email = normalizedEmail(email)

\* C8: registerUser(email, password) fails with the duplicate-user error whenever
\* a user record exists whose email is the trimmed, lower-cased form of email, and
\* otherwise succeeds and persists the new record after the existing ones.
C8_RegisterRejectsDuplicates ==
    \A email \in Emails, password \in Passwords :
        LET outcome == registerUser(storedUsers, email, password)
        IN  IF Registered(email)
            THEN /\ outcome.threw
                 /\ outcome.ret = "An account with this email already exists."
                 /\ outcome.store = storedUsers
            ELSE /\ ~outcome.threw
                 /\ getRawUsers(outcome.store).value =
                        Append(Users, [email    |-> normalizedEmail(email),
                                       password |-> password])

\* registerUser has refused an email that is spelled differently from the one
\* registered, with two users of different normalized emails registered
C8_Witness ==
    /\ call.op = "registerUser"
    /\ call.threw
    /\ ~call.changed
    /\ call.arg # normalizedEmail(call.arg)
    /\ Registered(call.arg)
    /\ \E u, v \in Range(Users) : u.email # v.email

(***************************************************************************)
(* C9                                                                      *)
(***************************************************************************)
\* C9: after any sequence of registerUser calls, verifyUser(email, password)
\* returns true if and only if a user record exists whose email is the normalized
\* form of email and whose stored password is exactly password.
C9_VerifyIffRegistered ==
    \A email \in Emails, password \in Passwords :
        verifyUser(storedUsers, email, password) =
            Return(\E u \in Range(Users) : /\ u.email = normalizedEmail(email)
                                            /\ u.password = password,
                   storedUsers)

\* verifyUser has accepted a registered user whose email is spelled differently,
\* and would refuse the same email with the other password
C9_Witness ==
    /\ call.op = "verifyUser"
    /\ call.ret = TRUE
    /\ call.arg # normalizedEmail(call.arg)
    /\ Len(Users) >= 2
    /\ \E password \in Passwords : ~verifyUser(storedUsers, call.arg, password).ret

(***************************************************************************)
(* C10                                                                     *)
(***************************************************************************)
\* C10: in every state reachable through login, sign-up and capture, the owner
\* email of every record in the history store is the normalized email of some
\* record in the user store.
C10_OwnersAreRegistered ==
    \A item \in Range(History) :
        \E u \in Range(Users) : normalizedEmail(u.email) = item.email

(***************************************************************************)
(* C11                                                                     *)
(***************************************************************************)
\* trimmed and lower-cased, e1 and e2 are the same string
SameNormalizedForm(e1, e2) == toLowerCase(trim(e1)) = toLowerCase(trim(e2))

\* the four history operations have, in the present store, the same result and
\* the same effect when called with e1 as when called with e2
SameForBoth(e1, e2) ==
    /\ \A in \in SaveInputs, newId \in IdPool, now \in Times :
           saveHistory(storedHistory, e1, in.type, in.targetLanguage, in.items, newId, now)
             = saveHistory(storedHistory, e2, in.type, in.targetLanguage, in.items, newId, now)
    /\ getUserHistory(storedHistory, e1) = getUserHistory(storedHistory, e2)
    /\ clearUserHistory(storedHistory, e1) = clearUserHistory(storedHistory, e2)
    /\ \A itemId \in ItemIds :
           deleteHistoryItem(storedHistory, e1, itemId)
             = deleteHistoryItem(storedHistory, e2, itemId)

\* C11 as stated: for any two emails with the same normalized form and any store
\* state, saveHistory, getUserHistory, clearUserHistory and deleteHistoryItem have
\* the same result and the same effect on the store with the one as with the other.
C11_AsStated ==
    \A e1, e2 \in Emails :
        SameNormalizedForm(e1, e2) => SameForBoth(e1, e2)

\* C11 amended: the same for any two non-empty emails with the same normalized
\* form; the empty email and an email of white space alone have the same
\* normalized form, and saveHistory stores a record for the second only.
C11_SameForBothSpellings ==
    /\ \A e1, e2 \in Emails \ {<< >>} :
           SameNormalizedForm(e1, e2) => SameForBoth(e1, e2)
    /\ \E e \in Emails \ {<< >>} :
           /\ SameNormalizedForm(e, << >>)
           /\ ~SameForBoth(e, << >>)

\* a record is stored whose owner has another spelling among the emails, and
\* under that spelling clearUserHistory and deleteHistoryItem remove it and
\* getUserHistory lists it
C11_Witness ==
    /\ call.op = "deleteHistoryItem"
    /\ call.changed
    /\ \E item \in Range(History), e \in Emails :
           /\ e # item.email
           /\ item.email # << >>
           /\ SameNormalizedForm(e, item.email)
           /\ clearUserHistory(storedHistory, e).store # storedHistory
           /\ deleteHistoryItem(storedHistory, e, item.id).store # storedHistory
           /\ getUserHistory(storedHistory, e).ret # << >>

(***************************************************************************)
(* C12                                                                     *)
(***************************************************************************)
\* what getUserHistory(reader) is to return when the history is list
ReadOf(list, reader) ==
    IF reader = << >> THEN << >>
    ELSE sortByTimestampDesc(SelectSeq(list, LAMBDA item : OwnedBy(item, reader)))

\* getUserHistory, called for any reader on the store a history mutation left,
\* returns the reader's records of list, the history the mutation is to leave
ReadsBack(outcome, list) ==
    /\ ~outcome.threw
    /\ \A reader \in Emails :
           getUserHistory(outcome.store, reader) = Return(ReadOf(list, reader), outcome.store)

ReadAfterSave ==
    \A email \in Emails, in \in SaveInputs, newId \in IdPool, now \in Times :
        ReadsBack(saveHistory(storedHistory, email, in.type, in.targetLanguage, in.items,
                              newId, now),
                  IF email = << >> THEN History
                  ELSE Append(History, [id             |-> newId,
                                        email          |-> toLowerCase(trim(email)),
                                        type           |-> in.type,
                                        timestamp      |-> toISOString(now),
                                        targetLanguage |-> in.targetLanguage,
                                        items          |-> in.items]))

ReadAfterClear ==
    \A email \in Emails :
        ReadsBack(clearUserHistory(storedHistory, email),
                  IF email = << >> THEN History
                  ELSE SelectSeq(History, LAMBDA item : ~OwnedBy(item, email)))

ReadAfterDelete ==
    \A email \in Emails, itemId \in ItemIds :
        LET outcome == deleteHistoryItem(storedHistory, email, itemId)
        IN  IF email = << >> \/ Matching(email, itemId) = {}
            THEN ReadsBack(outcome, History)
            ELSE \E i \in Matching(email, itemId) : ReadsBack(outcome, splice1(History, i))

\* after registerUser, verifyUser accepts what it accepted before and, when the
\* registration succeeded, the new email with the new password
ReadAfterRegister ==
    \A email \in Emails, password \in Passwords :
        LET outcome == registerUser(storedUsers, email, password)
        IN  \A e \in Emails, p \in Passwords :
                verifyUser(outcome.store, e, p) =
                    Return(\/ verifyUser(storedUsers, e, p).ret
                           \/ /\ ~outcome.threw
                              /\ SameNormalizedForm(e, email)
                              /\ p = password,
                           outcome.store)

\* C12: after saveHistory, clearUserHistory, deleteHistoryItem or registerUser
\* returns, the very next getUserHistory or verifyUser observes the complete
\* effect of that mutation.
C12_ReadAfterWrite ==
    /\ ReadAfterSave
    /\ ReadAfterClear
    /\ ReadAfterDelete
    /\ ReadAfterRegister

\* getUserHistory has listed a record of the store for a user, with a user
\* registered whom verifyUser accepts and other users' records stored
C12_Witness ==
    /\ call.op = "getUserHistory"
    /\ call.ret # << >>
    /\ Len(History) > Len(call.ret)
    /\ Len(Users) >= 1
    /\ verifyUser(storedUsers, Users[1].email, Users[1].password).ret = TRUE

(***************************************************************************)
(* C13                                                                     *)
(***************************************************************************)
\* C13: getUserHistory(email) leaves the persisted history store as it was, its
\* order included, for every email and every store state, and verifyUser leaves
\* the user store as it was.
C13_ReadsChangeNothing ==
    /\ \A email \in Emails :
           getUserHistory(storedHistory, email).store = storedHistory
    /\ \A email \in Emails, password \in Passwords :
           verifyUser(storedUsers, email, password).store = storedUsers
    /\ call.op \in {"getUserHistory", "verifyUser"} => ~call.changed

\* getUserHistory has listed a user's two records latest first, the store holding
\* them earliest first, and verifyUser would accept a registered user
C13_Witness ==
    /\ call.op = "getUserHistory"
    /\ Len(call.ret) = 2
    /\ History = <<call.ret[2], call.ret[1]>>
    /\ call.ret[1] # call.ret[2]
    /\ \E email \in Emails, password \in Passwords :
           verifyUser(storedUsers, email, password).ret = TRUE

(***************************************************************************)
(* C14                                                                     *)
(***************************************************************************)
Positions(text, tok) == {i \in 1..Len(text) : text[i] = tok}

FirstOpen(text) == CHOOSE i \in Positions(text, "{") : \A j \in Positions(text, "{") : i <= j

LastClose(text) == CHOOSE i \in Positions(text, "}") : \A j \in Positions(text, "}") : i >= j

\* the text without its fence markers
Unfenced(text) == SelectSeq(text, LAMBDA c : c \notin {"fence-json", "fence"})

\* the text holds a JSON object, fence markers and commentary without braces
\* around it
HoldsAnObject(text) ==
    /\ Positions(text, "{") # {}
    /\ Positions(text, "}") # {}
    /\ FirstOpen(text) < LastClose(text)
    /\ \A i \in (FirstOpen(text) + 1)..(LastClose(text) - 1) : text[i] \in {"t", " "}

\* the members of the object that the text holds
MembersOf(text) ==
    SelectSeq(SubSeq(text, FirstOpen(text) + 1, LastClose(text) - 1), LAMBDA c : c = "t")

\* C14: parseAIResponse, given a text that holds a JSON object wrapped in fence
\* markers or surrounded by commentary, returns the parse of the text from the
\* first opening brace to the last closing brace of the text without its fence
\* markers, which is the object.
C14_ParsesTheObject ==
    (ai.op = "parseAIResponse" /\ ai.done) =>
        /\ HoldsAnObject(ai.content) =>
               /\ ~ai.threw
               /\ ai.ret = [type |-> "object", items |-> MembersOf(ai.content)]
        /\ (/\ Positions(ai.content, "{") # {}
            /\ Positions(ai.content, "}") # {}
            /\ FirstOpen(ai.content) < LastClose(ai.content)) =>
               LET text   == Unfenced(ai.content)
                   parsed == JSONparseText(SubSeq(text, FirstOpen(text), LastClose(text)))
               IN  /\ ai.threw = parsed.threw
                   /\ ~ai.threw => ai.ret = parsed.value

\* parseAIResponse has returned the object, with its member, of a text that opens
\* with commentary and a fence marker
C14_Witness ==
    /\ ai.op = "parseAIResponse"
    /\ ai.done
    /\ ~ai.threw
    /\ Len(ai.content) >= 5
    /\ ai.content[1] = "t"
    /\ ai.content[2] = "fence-json"
    /\ ai.ret.type = "object"
    /\ ai.ret.items = <<"t">>

(***************************************************************************)
(* C15                                                                     *)
(***************************************************************************)
\* an opening brace with a closing brace after it
HasBracePair(text) ==
    \E i \in Positions(text, "{"), j \in Positions(text, "}") : i < j

\* C15: parseAIResponse, given any text without a pair of braces, fails with the
\* malformed-response error and returns no value.
C15_NoBracesFails ==
    (ai.op = "parseAIResponse" /\ ai.done /\ ~HasBracePair(ai.content)) =>
        /\ ai.threw
        /\ ai.ret = Error("Error", MalformedMessage)

(***************************************************************************)
(* C16                                                                     *)
(***************************************************************************)
IsServiceCall == ai.op \in {"extractAndTranslate", "translateAudio"}

\* the outcome the finished service call would have had with the response r
OutcomeWith(r) ==
    IF ai.op = "extractAndTranslate"
    THEN extractAndTranslate(ai.apiKey, ai.mimeType, ai.language, r)
    ELSE translateAudio(ai.apiKey, ai.mimeType, ai.language, r)

\* the service call has failed on a reply whose content does not parse
FailedOnContent ==
    /\ IsServiceCall
    /\ ai.done
    /\ ai.threw
    /\ ai.response.settled = "response"
    /\ ai.response.ok
    /\ ai.response.body.kind = "choices"

\* C16: the error of a service call for a reply that does not parse differs from
\* its error for a non-OK HTTP response, whatever the upstream error message.
C16_ErrorsDiffer ==
    FailedOnContent =>
        \A r \in Responses :
            (r.settled = "response" /\ ~r.ok) => OutcomeWith(r).ret # ai.ret

(***************************************************************************)
(* C17                                                                     *)
(***************************************************************************)
FallbackMessage ==
    IF ai.op = "extractAndTranslate"
    THEN "AI Provider busy. Try again in 1 minute."
    ELSE "Audio provider error"

\* the service call has sent its request and got a non-OK HTTP response
GotNonOK ==
    /\ IsServiceCall
    /\ ai.done
    /\ requests # << >>
    /\ ai.response.settled = "response"
    /\ ~ai.response.ok

\* C17: on a non-OK HTTP status the service call fails with an error whose
\* message is the upstream error message when the body carries one and the
\* fallback message otherwise; the content of the response is not returned.
C17_NonOKIsProviderError ==
    GotNonOK =>
        /\ ai.threw
        /\ ai.ret = Error("Error",
                          IF /\ ai.response.body.kind = "error"
                             /\ ai.response.body.message \notin {NULL, ""}
                          THEN ai.response.body.message
                          ELSE FallbackMessage)

(***************************************************************************)
(* C19                                                                     *)
(***************************************************************************)
\* the container of a MIME type: its subtype
ContainerOf(mimeType) == mimeType[2]

\* C19: the audio format in the request that translateAudio sends is the
\* container of its mimeType argument.
C19_FormatFromMimeType ==
    (ai.op = "translateAudio" /\ ai.done) =>
        \A i \in 1..Len(requests) : requests[i].format = ContainerOf(ai.mimeType)

(***************************************************************************)
(* C18                                                                     *)
(***************************************************************************)
\* C18: each call of extractAndTranslate or translateAudio sends at most one
\* request, whatever its outcome, and nothing is sent again without a new user
\* action: the requests sent and the operations still under way are together no
\* more than the uploads, confirmed captures and recordings the user started.
C18_OneRequestPerAction ==
    Len(requests) + Len(pending) <= userActions

\* two operations of the user have ended, the last in an error, each having sent
\* its one request
C18_Witness ==
    /\ userActions = 2
    /\ Len(requests) = 2
    /\ \E i \in 1..2 : requests[i].type = "input_audio"
    /\ pending = << >>
    /\ status = "ERROR"

(***************************************************************************)
(* C20                                                                     *)
(***************************************************************************)
StatusTransitions ==
    { <<"IDLE", "PROCESSING">>, <<"PROCESSING", "SUCCESS">>, <<"PROCESSING", "ERROR">>,
      <<"SUCCESS", "IDLE">>, <<"ERROR", "IDLE">> }

\* C20: over every sequence of user actions and asynchronous completions the
\* status changes only from IDLE to PROCESSING, from PROCESSING to SUCCESS or to
\* ERROR, and from SUCCESS or ERROR to IDLE.
C20_StatusTransitions ==
    [][status' # status => <<status, status'>> \in StatusTransitions]_vars

(***************************************************************************)
(* C29                                                                     *)
(***************************************************************************)
\* C29: with an empty email saveHistory returns the empty string and leaves
\* the history store as it was, getUserHistory returns an empty list, and
\* clearUserHistory leaves the store as it was; deleteHistoryItem leaves the
\* store as it was with an empty email or an empty id.
C29_EmptyEmailChangesNothing ==
    /\ \A in \in SaveInputs, newId \in IdPool, now \in Times :
           saveHistory(storedHistory, << >>, in.type, in.targetLanguage, in.items,
                       newId, now) = Return("", storedHistory)
    /\ getUserHistory(storedHistory, << >>) = Return(<< >>, storedHistory)
    /\ LET outcome == clearUserHistory(storedHistory, << >>)
       IN  ~outcome.threw /\ outcome.store = storedHistory
    /\ \A email \in Emails, itemId \in ItemIds :
           email = << >> \/ itemId = ""
             => LET outcome == deleteHistoryItem(storedHistory, email, itemId)
                IN  ~outcome.threw /\ outcome.store = storedHistory

\* saveHistory was called with an empty email on a store that holds records
C29_Witness ==
    /\ call.op = "saveHistory"
    /\ call.ret = ""
    /\ ~call.changed
    /\ History # << >>

(***************************************************************************)
(* C30                                                                     *)
(***************************************************************************)
\* verifyUser(email, pass) is true on the present user list
Verified(email, pass) ==
    LET outcome == verifyUser(storedUsers, email, pass)
    IN  ~outcome.threw /\ outcome.ret = TRUE

C26_ReturnsItems ==
    (IsServiceCall /\ ai.done /\ ~ai.threw)
      => /\ ai.ret.type = "object"
         /\ ai.ret.items # Undefined

(***************************************************************************)
(* C21                                                                     *)
(***************************************************************************)
\* an extraction or a translation has been asked of the provider and has not
\* settled
ExtractionPending ==
    \E i \in 1..Len(pending) : pending[i].stage \in {"extracting", "translating"}

\* C21: while an extraction is pending no step starts another upload, confirmed
\* capture or recording, and none starts the camera.
C21_OneInFlight ==
    [][ExtractionPending
          => /\ userActions' = userActions
             /\ cameraPending' <= cameraPending]_<<userActions, cameraPending>>

(***************************************************************************)
(* C28                                                                     *)
(***************************************************************************)
\* C28: at most one camera stream is live, and a live stream is the one that
\* streamRef holds.
C28_OneLiveStream ==
    /\ liveStreams <= 1
    /\ liveStreams = 1 => streamRef # NULL

(***************************************************************************)
(* C22                                                                     *)
(***************************************************************************)
\* C22: a camera stream is live only while the signed-in user has the camera
\* view open, and a microphone stream that is recording is the one that
\* stopRecording can stop, in the signed-in view; every other stream has been
\* released.
C22_StreamsReleased ==
    /\ liveStreams > 0 => isAuthenticated /\ isCameraActive
    /\ \A i \in 1..Len(pending) :
           pending[i].stage = "recording"
             => /\ isAuthenticated
                /\ isRecording
                /\ mediaRecorderRef = pending[i].id

(***************************************************************************)
(* C23                                                                     *)
(***************************************************************************)
\* C23: no failure of an operation escapes the controller as an exception
\* that nothing catches: a reply of an unexpected structure is reported as an
\* error and never leaves the App with results it cannot render.
C23_NoFailureEscapes == Mounted

(***************************************************************************)
(* C24                                                                     *)
(***************************************************************************)
\* C24: when an operation that was waiting for the provider at a reset
\* completes, with success or with failure, status, results, error and
\* activeHistoryId stay what they were.
C24_AbandonedStaysAbandoned ==
    [][\A i \in 1..Len(pending) :
          (pending[i].abandoned /\ pending' = splice1(pending, i))
            => UNCHANGED <<status, results, error, activeHistoryId>>
      ]_<<pending, status, results, error, activeHistoryId>>

(***************************************************************************)
(* C25                                                                     *)
(***************************************************************************)
\* operation i, which was waiting for the provider, ends in this step
Completes(i) ==
    /\ pending[i].stage \in {"extracting", "translating"}
    /\ pending' = splice1(pending, i)

\* C25: the step in which an operation ends with status SUCCESS adds exactly
\* one record to the history, the step in which an operation ends with status
\* ERROR leaves the history as it was, and no other step (loading a history
\* item and reset among them) adds a record.
C25_SavedOncePerSuccess ==
    [][/\ \A i \in 1..Len(pending) :
              (Completes(i) /\ status' = "SUCCESS")
                => Len(History') = Len(History) + 1
       /\ \A i \in 1..Len(pending) :
              (Completes(i) /\ status' = "ERROR") => History' = History
       /\ (\A i \in 1..Len(pending) : ~Completes(i))
              => Len(History') <= Len(History)
      ]_<<pending, storedHistory>>

\* two operations have ended, the first with a record saved, the second with
\* an error
C25_Witness ==
    /\ userActions = 2
    /\ pending = << >>
    /\ status = "ERROR"
    /\ Len(History) = 1

(***************************************************************************)
(* C27                                                                     *)
(***************************************************************************)
\* C27: while a user is signed in and activeHistoryId is not null, the history
\* holds a record with that id whose owner is the normalized session email.
C27_ActiveRecordIsTheUsers ==
    (isAuthenticated /\ activeHistoryId # NULL)
      => \E k \in 1..Len(History) :
            /\ History[k].id = activeHistoryId
            /\ History[k].email = normalizedEmail(userData.email)

====
